---- MODULE Spec2Model ----
(***************************************************************************)
(* A model of nextjs-unused-finder (src/src/index.ts): the classifier      *)
(* (isNextJsSystemFile, getFileType), the usage resolver (isFileUsed), the *)
(* import extractor (findImports) and the run of findUnusedFiles with its  *)
(* three loops and the grouping done by printResults.                      *)
(*                                                                         *)
(* Strings are TLA+ strings, handled character by character with Len and   *)
(* SubSeq, so that substring tests, base names and extensions are computed *)
(* as the JavaScript code computes them.                                   *)
(***************************************************************************)
EXTENDS Integers, Sequences, FiniteSets, TLC

(***************************************************************************)
(* JavaScript string primitives                                            *)
(***************************************************************************)
\* s.charAt(i), 1-based; "" outside the string
charAt(s, i) == IF i \in 1..Len(s) THEN SubSeq(s, i, i) ELSE ""

\* t occurs in s at position i
occursAt(s, i, t) ==
    /\ i >= 1
    /\ i + Len(t) - 1 <= Len(s)
    /\ SubSeq(s, i, i + Len(t) - 1) = t

\* s.includes(t)
includes(s, t) == t = "" \/ \E i \in 1..(Len(s) - Len(t) + 1) : occursAt(s, i, t)

\* s.startsWith(t)
startsWith(s, t) == occursAt(s, 1, t)

\* s.endsWith(t)
endsWith(s, t) == Len(t) <= Len(s) /\ occursAt(s, Len(s) - Len(t) + 1, t)

RECURSIVE indexOf(_, _, _)
\* s.indexOf(t, i), 1-based; 0 when t does not occur at or after position i
indexOf(s, t, i) ==
    IF i + Len(t) - 1 > Len(s) THEN 0
    ELSE IF occursAt(s, i, t) THEN i
    ELSE indexOf(s, t, i + 1)

RECURSIVE lastIndexFrom(_, _, _)
\* s.lastIndexOf(t, i), 1-based; 0 when t does not occur at or before position i
lastIndexFrom(s, t, i) ==
    IF i < 1 THEN 0
    ELSE IF occursAt(s, i, t) THEN i
    ELSE lastIndexFrom(s, t, i - 1)

\* s.lastIndexOf(t)
lastIndexOf(s, t) == lastIndexFrom(s, t, Len(s) - Len(t) + 1)

\* s.substring from position i to the end
from(s, i) == IF i > Len(s) THEN "" ELSE SubSeq(s, i, Len(s))

UpperLetters == "ABCDEFGHIJKLMNOPQRSTUVWXYZ"

LowerLetters == "abcdefghijklmnopqrstuvwxyz"

Digits == "0123456789"

\* the set of the characters of s
charsOf(s) == {SubSeq(s, k, k) : k \in 1..Len(s)}

\* the regular expression classes the code uses
ClsUpper == charsOf(UpperLetters)

ClsLower == charsOf(LowerLetters)

\* \w
ClsWord == ClsUpper \cup ClsLower \cup charsOf(Digits) \cup {"_"}

\* \s
ClsSpace == {" ", "\t", "\n", "\r"}

\* the quotes of apiPatterns: the single and the double quote. The class has a
\* third member, the backquote, which no TLA+ string can hold: no text of the
\* model contains one
ClsQuote3 == {"'", "\""}

\* the quotes of importPatterns: the single and the double quote
ClsQuote2 == {"'", "\""}

\* [a-zA-Z0-9-_/]
ClsApiPath == ClsUpper \cup ClsLower \cup charsOf(Digits) \cup {"-", "_", "/"}

\* [\s\w,]
ClsBindings == ClsSpace \cup ClsWord \cup {","}

lowerChar(c) ==
    IF c \in ClsUpper
    THEN charAt(LowerLetters, indexOf(UpperLetters, c, 1))
    ELSE c

RECURSIVE toLowerCase(_)
\* s.toLowerCase()
toLowerCase(s) == IF s = "" THEN "" ELSE lowerChar(Head(s)) \o toLowerCase(Tail(s))

RECURSIVE spanIn(_, _, _)
\* X+ matched greedily from position i, X a character class: the position of
\* the last character matched, i - 1 when none is
spanIn(s, i, cls) == IF charAt(s, i) \in cls THEN spanIn(s, i + 1, cls) ELSE i - 1

RECURSIVE spanNotIn(_, _, _)
\* [^X]+ matched greedily from position i
spanNotIn(s, i, cls) ==
    IF i > Len(s) \/ charAt(s, i) \in cls THEN i - 1 ELSE spanNotIn(s, i + 1, cls)

(***************************************************************************)
(* Node's path module (POSIX), on the paths getAllFiles builds with join:  *)
(* no trailing slash.                                                      *)
(***************************************************************************)
\* path.basename(p)
basename(p) == from(p, lastIndexOf(p, "/") + 1)

\* path.dirname(p)
dirname(p) ==
    LET k == lastIndexOf(p, "/")
    IN  IF k = 0 THEN "." ELSE IF k = 1 THEN "/" ELSE SubSeq(p, 1, k - 1)

\* path.extname(p): from the last dot of the base name, "" when there is none
\* or when it is the base name's first character
extname(p) ==
    LET b == basename(p)
        k == lastIndexOf(b, ".")
    IN  IF k <= 1 \/ b = ".." THEN "" ELSE from(b, k)

\* path.basename(p, ext)
basenameExt(p, ext) ==
    LET b == basename(p)
    IN  IF ext # "" /\ b # ext /\ endsWith(b, ext)
        THEN SubSeq(b, 1, Len(b) - Len(ext))
        ELSE b

(***************************************************************************)
(* NEXTJS_PATTERNS                                                         *)
(***************************************************************************)
criticalFiles ==
    {"layout.tsx", "page.tsx", "loading.tsx", "error.tsx", "not-found.tsx",
     "route.ts", "middleware.ts", "robots.ts", "sitemap.ts", "manifest.ts",
     "global.d.ts", "globals.css", "analytics.ts", "metadata.ts", "schema.js"}

mediaExtensions ==
    {".jpg", ".jpeg", ".png", ".gif", ".svg", ".webp", ".ico", ".mp4", ".webm",
     ".m4s", ".mp3", ".wav", ".ogg"}

codeExtensions == {".ts", ".tsx", ".js", ".jsx", ".css", ".scss", ".sass", ".less"}

FileTypes ==
    {"media", "component", "util", "type", "hook", "context", "style", "api", "page"}

(***************************************************************************)
(* The classifier                                                          *)
(***************************************************************************)
\* isNextJsSystemFile without its last rule, page.* directly under app
isNextJsSystemFileNoAppPage(filePath) ==
    LET fileName == basename(filePath)
    IN  IF fileName \in criticalFiles THEN TRUE
        ELSE IF includes(filePath, "/api/") THEN TRUE
        ELSE FALSE

isNextJsSystemFile(filePath) ==
    LET fileName == basename(filePath)
        dirName == basename(dirname(filePath))
    IN  IF fileName \in criticalFiles THEN TRUE
        ELSE IF includes(filePath, "/api/") THEN TRUE
        ELSE IF dirName = "app" /\ startsWith(fileName, "page.") THEN TRUE
        ELSE FALSE

getFileType(filePath) ==
    LET fileName == basename(filePath)
        ext == toLowerCase(extname(filePath))
    IN  IF includes(filePath, "/api/") THEN "api"
        ELSE IF includes(filePath, "/app/") /\ startsWith(fileName, "page.") THEN "page"
        ELSE IF ext \in mediaExtensions THEN "media"
        \* /^[A-Z].*\.(tsx|jsx)$/
        ELSE IF /\ charAt(fileName, 1) \in ClsUpper
                /\ \E e \in {".tsx", ".jsx"} : endsWith(from(fileName, 2), e)
             THEN "component"
        \* /^use[A-Z].*\.(ts|tsx)$/
        ELSE IF /\ startsWith(fileName, "use")
                /\ charAt(fileName, 4) \in ClsUpper
                /\ \E e \in {".ts", ".tsx"} : endsWith(from(fileName, 5), e)
             THEN "hook"
        \* /(Context|Provider)\.(ts|tsx)$/
        ELSE IF \E w \in {"Context", "Provider"} :
                  \E e \in {".ts", ".tsx"} : endsWith(fileName, w \o e)
             THEN "context"
        \* /\.d\.ts$/
        ELSE IF endsWith(fileName, ".d.ts") THEN "type"
        \* /\.(css|scss|sass|less)$/
        ELSE IF \E e \in {".css", ".scss", ".sass", ".less"} : endsWith(fileName, e)
             THEN "style"
        ELSE "util"

(***************************************************************************)
(* NEXTJS_PATTERNS.apiPatterns. matchEnd(p, s, i) is the position of the   *)
(* last character of pattern p's match starting at position i of s, 0 when *)
(* the pattern does not match there. Every quantifier of the patterns is   *)
(* followed by a character outside its class, so the greedy match is the   *)
(* only one.                                                               *)
(***************************************************************************)
\* ['"]\/api\/([^'"]+)['"]\) from position q, the tail of patterns 1 and 2
apiCallTail(s, q) ==
    LET e == spanNotIn(s, q + 6, ClsQuote3)
    IN  IF /\ charAt(s, q) \in ClsQuote3
           /\ occursAt(s, q + 1, "/api/")
           /\ e >= q + 6
           /\ charAt(s, e + 1) \in ClsQuote3
           /\ charAt(s, e + 2) = ")"
        THEN e + 2
        ELSE 0

matchEnd(p, s, i) ==
    CASE p = 1 ->
           \* /fetch\(['"]\/api\/([^'"]+)['"]\)/g
           IF occursAt(s, i, "fetch(") THEN apiCallTail(s, i + 6) ELSE 0
      [] p = 2 ->
           \* /axios\.[a-z]+\(['"]\/api\/([^'"]+)['"]\)/g
           LET e == spanIn(s, i + 6, ClsLower)
           IN  IF occursAt(s, i, "axios.") /\ e >= i + 6 /\ charAt(s, e + 1) = "("
               THEN apiCallTail(s, e + 2)
               ELSE 0
      [] OTHER ->
           \* /\/api\/([a-zA-Z0-9-_/]+)/g
           LET e == spanIn(s, i + 5, ClsApiPath)
           IN  IF occursAt(s, i, "/api/") /\ e >= i + 5 THEN e ELSE 0

RECURSIVE matchAll(_, _, _)
\* content.match(pattern) for a global pattern, from position i on: the matches,
\* leftmost first and not overlapping, as a set ({} for null)
matchAll(p, s, i) ==
    IF i > Len(s) THEN {}
    ELSE LET e == matchEnd(p, s, i)
         IN  IF e = 0 THEN matchAll(p, s, i + 1)
             ELSE {SubSeq(s, i, e)} \cup matchAll(p, s, e + 1)

\* file.split("/api/")[1], for a file that includes "/api/"
splitApi1(file) ==
    LET rest == from(file, indexOf(file, "/api/", 1) + 5)
        b == indexOf(rest, "/api/", 1)
    IN  IF b = 0 THEN rest ELSE SubSeq(rest, 1, b - 1)

\* s.replace(/\.[jt]s$/, "")
stripJsTs(s) ==
    IF endsWith(s, ".js") \/ endsWith(s, ".ts") THEN SubSeq(s, 1, Len(s) - 3) ELSE s

(***************************************************************************)
(* The usage resolver                                                      *)
(***************************************************************************)
\* rule (a) testing the base name with its extension
nameEvidenceFullName(file, otherInfo) == includes(otherInfo.content, basename(file))

\* rule (a): the other file's text contains the extension-stripped base name
nameEvidence(file, otherInfo) ==
    LET fileBaseName == basenameExt(file, extname(file))
    IN  includes(otherInfo.content, fileBaseName)

\* rule (b): an API pattern's match in the other file's text contains the API path
apiEvidence(file, otherInfo) ==
    /\ includes(file, "/api/")
    /\ LET apiPath == stripJsTs(splitApi1(file))
       IN  /\ apiPath # ""
           /\ \E p \in 1..3 :
                \E m \in matchAll(p, otherInfo.content, 1) : includes(m, apiPath)

\* rule (c): a media file's full base name is in the other file's text
mediaEvidence(file, otherInfo) ==
    /\ toLowerCase(extname(file)) \in mediaExtensions
    /\ includes(otherInfo.content, basename(file))

RECURSIVE scanIndexWithSelf(_, _, _)
\* the loop without its skip of the file's own entry
scanIndexWithSelf(file, importMap, k) ==
    IF k > Len(importMap) THEN FALSE
    ELSE LET otherInfo == importMap[k]
         IN  IF nameEvidence(file, otherInfo) THEN TRUE
             ELSE IF apiEvidence(file, otherInfo) THEN TRUE
             ELSE IF mediaEvidence(file, otherInfo) THEN TRUE
             ELSE scanIndexWithSelf(file, importMap, k + 1)

RECURSIVE scanIndexFirstOnly(_, _, _)
\* the loop leaving after the first entry that is not the file's own
scanIndexFirstOnly(file, importMap, k) ==
    IF k > Len(importMap) THEN FALSE
    ELSE LET otherInfo == importMap[k]
         IN  IF otherInfo.filePath = file THEN scanIndexFirstOnly(file, importMap, k + 1)
             ELSE IF nameEvidence(file, otherInfo) THEN TRUE
             ELSE IF apiEvidence(file, otherInfo) THEN TRUE
             ELSE IF mediaEvidence(file, otherInfo) THEN TRUE
             ELSE FALSE

RECURSIVE scanIndex(_, _, _)
\* the loop over importMap.entries() from entry k on: TRUE at the first entry,
\* other than the file's own, in which a rule fires
scanIndex(file, importMap, k) ==
    IF k > Len(importMap) THEN FALSE
    ELSE LET otherInfo == importMap[k]
         IN  IF otherInfo.filePath = file THEN scanIndex(file, importMap, k + 1)
             ELSE IF nameEvidence(file, otherInfo) THEN TRUE
             ELSE IF apiEvidence(file, otherInfo) THEN TRUE
             ELSE IF mediaEvidence(file, otherInfo) THEN TRUE
             ELSE scanIndex(file, importMap, k + 1)

isFileUsed(file, importMap) ==
    IF isNextJsSystemFile(file) THEN TRUE ELSE scanIndex(file, importMap, 1)

(***************************************************************************)
(* The import extractor. importEnd(p, s, i) is <<e, a, b>>: pattern p      *)
(* matches at position i of s up to position e and captures s[a..b]; e = 0 *)
(* when it does not match there.                                           *)
(***************************************************************************)
NoMatch == <<0, 0, 0>>

\* ['"]([^'"]+)['"] from position q, followed by the string closing
quoted(s, q, closing) ==
    LET e == spanNotIn(s, q + 1, ClsQuote2)
    IN  IF /\ charAt(s, q) \in ClsQuote2
           /\ e >= q + 1
           /\ charAt(s, e + 1) \in ClsQuote2
           /\ occursAt(s, e + 2, closing)
        THEN <<e + 1 + Len(closing), q + 1, e>>
        ELSE NoMatch

importEnd(p, s, i) ==
    CASE p = 1 ->
           \* /import\s+(?:{[\s\w,]+}|\w+)\s+from\s+['"]([^'"]+)['"]/g
           LET s1 == spanIn(s, i + 6, ClsSpace)
               b0 == s1 + 1
               inBrace == spanIn(s, b0 + 1, ClsBindings)
               word == spanIn(s, b0, ClsWord)
               b1 == IF charAt(s, b0) = "{"
                     THEN IF inBrace >= b0 + 1 /\ charAt(s, inBrace + 1) = "}"
                          THEN inBrace + 1 ELSE 0
                     ELSE IF word >= b0 THEN word ELSE 0
               s2 == spanIn(s, b1 + 1, ClsSpace)
               s3 == spanIn(s, s2 + 5, ClsSpace)
           IN  IF /\ occursAt(s, i, "import")
                  /\ s1 >= i + 6
                  /\ b1 # 0
                  /\ s2 >= b1 + 1
                  /\ occursAt(s, s2 + 1, "from")
                  /\ s3 >= s2 + 5
               THEN quoted(s, s3 + 1, "")
               ELSE NoMatch
      [] p = 2 ->
           \* /import\(['"]([^'"]+)['"]\)/g
           IF occursAt(s, i, "import(") THEN quoted(s, i + 7, ")") ELSE NoMatch
      [] p = 3 ->
           \* /require\(['"]([^'"]+)['"]\)/g
           IF occursAt(s, i, "require(") THEN quoted(s, i + 8, ")") ELSE NoMatch
      [] OTHER ->
           \* /dynamic\([^)]+['"]\)/g has no capture group: match[1] is undefined
           \* and nothing is added for its matches
           NoMatch

\* target.replace(/\.(js|jsx|ts|tsx)$/, "")
stripCodeExt(t) ==
    IF \E e \in {".jsx", ".tsx"} : endsWith(t, e) THEN SubSeq(t, 1, Len(t) - 4)
    ELSE IF \E e \in {".js", ".ts"} : endsWith(t, e) THEN SubSeq(t, 1, Len(t) - 3)
    ELSE t

RECURSIVE execAll(_, _, _)
\* the while loop of pattern.exec(content) from position i on: what it adds
execAll(p, s, i) ==
    IF i > Len(s) THEN {}
    ELSE LET m == importEnd(p, s, i)
             target == SubSeq(s, m[2], m[3])
         IN  IF m[1] = 0 THEN execAll(p, s, i + 1)
             ELSE (IF startsWith(target, ".") THEN {target, stripCodeExt(target)} ELSE {})
                  \cup execAll(p, s, m[1] + 1)

findImports(content) == UNION {execAll(p, content, 1) : p \in 1..4}

(***************************************************************************)
(* The inputs of a run: what getAllFiles finds under src and public, what  *)
(* readFileSync returns and what statSync reports.                         *)
(***************************************************************************)
\* the most files under src, the most files under public, the largest file size
MaxSrc == 3

MaxPub == 1

MaxSize == 1

\* the files that may be found under src, in the order getAllFiles lists them:
\* readdirSync gives a directory's entries sorted by name, and a directory's
\* files come where its name stands
SrcTree ==
    <<"/r/src/Button.tsx", "/r/src/app/d/page.jsx", "/r/src/app/layout.tsx",
      "/r/src/robots.txt", "/r/src/segment_a.ts">>

\* the files that may be found under public, in getAllFiles's order
PubTree ==
    <<"/r/public/clip.m4s", "/r/public/logo.png", "/r/public/main.css",
      "/r/public/robots.txt", "/r/public/segment_0.ts", "/r/public/sitemap.xml">>

\* what a source file may contain
Texts ==
    {"import B from './Button'; main()",
     "<img src='/logo.png'/> fetch('/api/u')"}

Range(seq) == {seq[k] : k \in 1..Len(seq)}

\* the listings of at most n files of a tree, in the tree's order
Listings(tree, n) ==
    {SelectSeq(tree, LAMBDA file : file \in found) :
        found \in {S \in SUBSET Range(tree) : Cardinality(S) <= n}}

RECURSIVE SeqSum(_)
\* sizes.reduce((acc, n) => acc + n, 0)
SeqSum(sizes) == IF sizes = <<>> THEN 0 ELSE Head(sizes) + SeqSum(Tail(sizes))

(***************************************************************************)
(* The run of findUnusedFiles                                              *)
(***************************************************************************)
VARIABLES
    pc,           \* the loop the run is in: "index", "verdict", "public", then "done"
    cursor,       \* the position of the current loop in its list
    sourceFiles,  \* the files under src with a code extension
    publicFiles,  \* the files under public
    importMap,    \* the index, in insertion order
    unusedFiles,  \* the report's entries
    totalSize,    \* the running total
    errors,       \* what console.error was given: <<operation, file>>
    rendered      \* what printResults showed, "nothing" before it ran

vars ==
    <<pc, cursor, sourceFiles, publicFiles, importMap, unusedFiles, totalSize,
      errors, rendered>>

\* allFiles.filter(file => codeExtensions.has(extname(file).toLowerCase()))
isSourceFile(file) == toLowerCase(extname(file)) \in codeExtensions

Init ==
    /\ pc = "index"
    /\ cursor = 1
    /\ \E allFiles \in Listings(SrcTree, MaxSrc) :
         sourceFiles = SelectSeq(allFiles, isSourceFile)
    /\ publicFiles \in Listings(PubTree, MaxPub)
    /\ importMap = <<>>
    /\ unusedFiles = <<>>
    /\ totalSize = 0
    /\ errors = <<>>
    /\ rendered = "nothing"

\* importMap.set(file, info): in place for a key the map holds, else at the end
mapSet(map, file, info) ==
    IF \E k \in 1..Len(map) : map[k].filePath = file
    THEN [k \in 1..Len(map) |-> IF map[k].filePath = file THEN info ELSE map[k]]
    ELSE Append(map, info)

\* the first loop, readFileSync returning content
ReadOk ==
    /\ pc = "index"
    /\ cursor <= Len(sourceFiles)
    /\ \E content \in Texts :
         importMap' = mapSet(importMap, sourceFiles[cursor],
                             [imports |-> findImports(content),
                              exports |-> {},
                              content |-> content,
                              filePath |-> sourceFiles[cursor]])
    /\ cursor' = cursor + 1
    /\ UNCHANGED <<pc, sourceFiles, publicFiles, unusedFiles, totalSize, errors, rendered>>

\* the first loop, readFileSync throwing
ReadFail ==
    /\ pc = "index"
    /\ cursor <= Len(sourceFiles)
    /\ errors' = Append(errors, <<"analyzing", sourceFiles[cursor]>>)
    /\ cursor' = cursor + 1
    /\ UNCHANGED <<pc, sourceFiles, publicFiles, importMap, unusedFiles, totalSize, rendered>>

\* the first loop ends
IndexDone ==
    /\ pc = "index"
    /\ cursor > Len(sourceFiles)
    /\ pc' = "verdict"
    /\ cursor' = 1
    /\ UNCHANGED <<sourceFiles, publicFiles, importMap, unusedFiles, totalSize, errors, rendered>>

\* the total assigned where it is to be added to
recordUnusedOverwrite(file, size, type) ==
    /\ totalSize' = size
    /\ unusedFiles' = Append(unusedFiles, [path |-> file, size |-> size, type |-> type])

\* totalSize += stats.size; unusedFiles.push({path, size, type})
recordUnused(file, size, type) ==
    /\ totalSize' = totalSize + size
    /\ unusedFiles' = Append(unusedFiles, [path |-> file, size |-> size, type |-> type])

\* the second loop giving the third loop's type
sourceEntryTypeMedia(file) == "media"

\* the type the second loop gives an entry
sourceEntryType(file) == getFileType(file)

\* the second loop, the file used
SourceUsed ==
    /\ pc = "verdict"
    /\ cursor <= Len(sourceFiles)
    /\ isFileUsed(sourceFiles[cursor], importMap)
    /\ cursor' = cursor + 1
    /\ UNCHANGED <<pc, sourceFiles, publicFiles, importMap, unusedFiles, totalSize, errors, rendered>>

\* the second loop, the file unused and statSync returning
SourceUnused ==
    /\ pc = "verdict"
    /\ cursor <= Len(sourceFiles)
    /\ ~isFileUsed(sourceFiles[cursor], importMap)
    /\ \E size \in 0..MaxSize :
         recordUnused(sourceFiles[cursor], size, sourceEntryType(sourceFiles[cursor]))
    /\ cursor' = cursor + 1
    /\ UNCHANGED <<pc, sourceFiles, publicFiles, importMap, errors, rendered>>

\* the second loop, the file unused and statSync throwing
SourceStatFail ==
    /\ pc = "verdict"
    /\ cursor <= Len(sourceFiles)
    /\ ~isFileUsed(sourceFiles[cursor], importMap)
    /\ errors' = Append(errors, <<"stats", sourceFiles[cursor]>>)
    /\ cursor' = cursor + 1
    /\ UNCHANGED <<pc, sourceFiles, publicFiles, importMap, unusedFiles, totalSize, rendered>>

\* the second loop ends
VerdictDone ==
    /\ pc = "verdict"
    /\ cursor > Len(sourceFiles)
    /\ pc' = "public"
    /\ cursor' = 1
    /\ UNCHANGED <<sourceFiles, publicFiles, importMap, unusedFiles, totalSize, errors, rendered>>

\* the skipped names without the segment_ test
isExcludedAssetNoSegment(fileName) ==
    \/ fileName = "robots.txt"
    \/ fileName = "sitemap.xml"
    \/ endsWith(fileName, ".m4s")

\* the names the third loop skips
isExcludedAsset(fileName) ==
    \/ fileName = "robots.txt"
    \/ fileName = "sitemap.xml"
    \/ includes(fileName, "segment_")
    \/ endsWith(fileName, ".m4s")

RECURSIVE scanContents(_, _, _)
\* the third loop's scan of the index from entry k on
scanContents(fileName, map, k) ==
    IF k > Len(map) THEN FALSE
    ELSE IF includes(map[k].content, fileName) THEN TRUE
    ELSE scanContents(fileName, map, k + 1)

\* the third loop's scan for the base name without its extension
isAssetUsedBareName(file, map) ==
    scanContents(basenameExt(file, extname(file)), map, 1)

\* isUsed after the third loop's scan
isAssetUsed(file, map) == scanContents(basename(file), map, 1)

\* the third loop, the file skipped
PublicExcluded ==
    /\ pc = "public"
    /\ cursor <= Len(publicFiles)
    /\ isExcludedAsset(basename(publicFiles[cursor]))
    /\ cursor' = cursor + 1
    /\ UNCHANGED <<pc, sourceFiles, publicFiles, importMap, unusedFiles, totalSize, errors, rendered>>

\* the third loop, the file used
PublicUsed ==
    /\ pc = "public"
    /\ cursor <= Len(publicFiles)
    /\ ~isExcludedAsset(basename(publicFiles[cursor]))
    /\ isAssetUsed(publicFiles[cursor], importMap)
    /\ cursor' = cursor + 1
    /\ UNCHANGED <<pc, sourceFiles, publicFiles, importMap, unusedFiles, totalSize, errors, rendered>>

\* the third loop, the file unused and statSync returning
PublicUnused ==
    /\ pc = "public"
    /\ cursor <= Len(publicFiles)
    /\ ~isExcludedAsset(basename(publicFiles[cursor]))
    /\ ~isAssetUsed(publicFiles[cursor], importMap)
    /\ \E size \in 0..MaxSize : recordUnused(publicFiles[cursor], size, "media")
    /\ cursor' = cursor + 1
    /\ UNCHANGED <<pc, sourceFiles, publicFiles, importMap, errors, rendered>>

\* the third loop, the file unused and statSync throwing
PublicStatFail ==
    /\ pc = "public"
    /\ cursor <= Len(publicFiles)
    /\ ~isExcludedAsset(basename(publicFiles[cursor]))
    /\ ~isAssetUsed(publicFiles[cursor], importMap)
    /\ errors' = Append(errors, <<"stats", publicFiles[cursor]>>)
    /\ cursor' = cursor + 1
    /\ UNCHANGED <<pc, sourceFiles, publicFiles, importMap, unusedFiles, totalSize, rendered>>

\* the third loop ends with nothing to report
NoUnused ==
    /\ pc = "public"
    /\ cursor > Len(publicFiles)
    /\ unusedFiles = <<>>
    /\ pc' = "done"
    /\ rendered' = "No unused files found!"
    /\ UNCHANGED <<cursor, sourceFiles, publicFiles, importMap, unusedFiles, totalSize, errors>>

RECURSIVE typesInOrder(_)
\* Object.keys(groupedFiles): the types, each where its first file stands
typesInOrder(files) ==
    IF files = <<>> THEN <<>>
    ELSE LET before == typesInOrder(SubSeq(files, 1, Len(files) - 1))
             type == files[Len(files)].type
         IN  IF type \in Range(before) THEN before ELSE Append(before, type)

\* one type's section: its files, in the report's order, and their sizes' sum
section(files, type) ==
    LET ofType(file) == file.type = type
        group == SelectSeq(files, ofType)
    IN  [type |-> type,
         files |-> group,
         sizeForType |-> SeqSum([k \in 1..Len(group) |-> group[k].size])]

\* what printResults shows
printResults(files, total) ==
    LET types == typesInOrder(files)
    IN  [analyzed |-> Len(files),
         types |-> Len(types),
         savings |-> total,
         sections |-> [k \in 1..Len(types) |-> section(files, types[k])]]

\* the third loop ends and the report is printed
PrintResults ==
    /\ pc = "public"
    /\ cursor > Len(publicFiles)
    /\ unusedFiles # <<>>
    /\ pc' = "done"
    /\ rendered' = printResults(unusedFiles, totalSize)
    /\ UNCHANGED <<cursor, sourceFiles, publicFiles, importMap, unusedFiles, totalSize, errors>>

Next ==
    \/ ReadOk
    \/ ReadFail
    \/ IndexDone
    \/ SourceUsed
    \/ SourceUnused
    \/ SourceStatFail
    \/ VerdictDone
    \/ PublicExcluded
    \/ PublicUsed
    \/ PublicUnused
    \/ PublicStatFail
    \/ NoUnused
    \/ PrintResults

Spec == Init /\ [][Next]_vars

(***************************************************************************)
(* What the properties below speak of                                      *)
(***************************************************************************)
\* the first loop has ended and the second has not judged a file yet: the
\* index is the one every verdict of the run is computed on
indexBuilt == pc = "verdict" /\ cursor = 1

\* the paths isFileUsed is judged on: the source tree's files and a few more
ProbePaths ==
    Range(SrcTree) \cup
    {"/r/src/app/page.js", "/r/src/app/api/u.ts", "/r/src/img/logo.png",
     "/r/src/middleware.ts"}

\* every order of a sequence's entries
Reorderings(seq) ==
    LET n == Len(seq)
    IN  {[k \in 1..n |-> seq[f[k]]] :
            f \in {g \in [1..n -> 1..n] : \A i, j \in 1..n : g[i] = g[j] => i = j}}

\* a critical-file rule matches the path
matchesCriticalRule(f) ==
    \/ basename(f) \in criticalFiles
    \/ includes(f, "/api/")
    \/ startsWith(basename(f), "page.") /\ basename(dirname(f)) = "app"

\* the base name without its extension
bareName(f) == basenameExt(f, extname(f))

\* entry k of the index is another file's and mentions f's bare name
mentions(idx, k, f) ==
    idx[k].filePath # f /\ includes(idx[k].content, bareName(f))

\* no other file of the index holds evidence for f
noEvidence(f, idx) ==
    \A k \in 1..Len(idx) :
        idx[k].filePath # f =>
            /\ ~includes(idx[k].content, bareName(f))
            /\ ~apiEvidence(f, idx[k])
            /\ toLowerCase(extname(f)) \in mediaExtensions =>
                   ~includes(idx[k].content, basename(f))

\* the second loop is past source file k
sourceJudged(k) ==
    /\ k \in 1..Len(sourceFiles)
    /\ \/ pc = "verdict" /\ k < cursor
       \/ pc \in {"public", "done"}

\* the third loop is past public file k
publicJudged(k) ==
    /\ k \in 1..Len(publicFiles)
    /\ \/ pc = "public" /\ k < cursor
       \/ pc = "done"

reported == {unusedFiles[k].path : k \in 1..Len(unusedFiles)}

indexed == {importMap[k].filePath : k \in 1..Len(importMap)}

readFailed == {errors[k][2] : k \in {j \in 1..Len(errors) : errors[j][1] = "analyzing"}}

statFailed == {errors[k][2] : k \in {j \in 1..Len(errors) : errors[j][1] = "stats"}}

\* the names the claim lists as never reported
listedName(name) ==
    \/ name \in {"robots.txt", "sitemap.xml"}
    \/ includes(name, "segment_")
    \/ endsWith(name, ".m4s")

(***************************************************************************)
(* C1. A path that matches a critical-file rule is used whatever the index *)
(* holds: with the index the run built and with the empty index.           *)
(***************************************************************************)
CriticalAlwaysUsed ==
    indexBuilt =>
        \A f \in ProbePaths :
            matchesCriticalRule(f) =>
                isFileUsed(f, importMap) /\ isFileUsed(f, <<>>)

\* a critical source file that no indexed file mentions was judged, and is
\* not in the report
CriticalJudged ==
    /\ pc = "done"
    /\ importMap # <<>>
    /\ \E k \in 1..Len(sourceFiles) :
         /\ matchesCriticalRule(sourceFiles[k])
         /\ noEvidence(sourceFiles[k], importMap)
         /\ sourceFiles[k] \notin reported

(***************************************************************************)
(* C2. A file whose bare name is in the text of another indexed file is    *)
(* used, wherever that file stands in the index's order.                   *)
(***************************************************************************)
MentionedIsUsed ==
    indexBuilt =>
        \A f \in ProbePaths :
            (\E k \in 1..Len(importMap) : mentions(importMap, k, f)) =>
                \A idx \in Reorderings(importMap) : isFileUsed(f, idx)

\* a source file outside the critical rules was judged used on a mention that
\* stands behind another file's entry without one
MentionedLate ==
    /\ pc = "done"
    /\ \E n \in 1..Len(sourceFiles) :
         LET f == sourceFiles[n]
         IN  /\ ~matchesCriticalRule(f)
             /\ f \notin reported
             /\ \E j, k \in 1..Len(importMap) :
                  /\ j < k
                  /\ importMap[j].filePath # f
                  /\ ~mentions(importMap, j, f)
                  /\ mentions(importMap, k, f)

(***************************************************************************)
(* C3, as stated. A file for which no other indexed file holds evidence    *)
(* (bare name, API path in an API pattern's match, full name of a media    *)
(* file) is not used.                                                      *)
(***************************************************************************)
NoEvidenceIsUnused ==
    indexBuilt =>
        \A f \in ProbePaths : noEvidence(f, importMap) => ~isFileUsed(f, importMap)

(***************************************************************************)
(* C3, amended. A file that matches no critical-file rule and for which no *)
(* other indexed file holds evidence is not used; its own text is not      *)
(* evidence.                                                               *)
(***************************************************************************)
NoEvidenceNonCriticalIsUnused ==
    indexBuilt =>
        \A f \in ProbePaths :
            ~matchesCriticalRule(f) /\ noEvidence(f, importMap) =>
                ~isFileUsed(f, importMap)

\* a source file whose own text holds its bare name, and no other file's does,
\* is in the report
OwnMentionOnly ==
    /\ pc = "done"
    /\ \E k \in 1..Len(importMap) :
         LET f == importMap[k].filePath
         IN  /\ includes(importMap[k].content, bareName(f))
             /\ Len(importMap) > 1
             /\ noEvidence(f, importMap)
             /\ f \in reported

(***************************************************************************)
(* C4, as stated. A source file whose read failed is not in the index and  *)
(* not in the report, and a file whose stat failed is not in the report.   *)
(***************************************************************************)
FailedFilesSkipped ==
    /\ \A f \in readFailed : f \notin indexed /\ f \notin reported
    /\ \A f \in statFailed : f \notin reported

(***************************************************************************)
(* C5, as stated. No file named robots.txt or sitemap.xml, or with         *)
(* segment_ in its name, or with a name ending in .m4s, is in the report,  *)
(* whichever tree it is in.                                                *)
(***************************************************************************)
ListedNamesNeverReported ==
    \A f \in reported : ~listedName(basename(f))

(***************************************************************************)
(* C5, amended. No file of the public tree with a listed name is in the    *)
(* report, and no file of either tree named robots.txt or sitemap.xml or   *)
(* with a name ending in .m4s.                                             *)
(***************************************************************************)
ListedAssetsNeverReported ==
    \A f \in reported :
        /\ f \in Range(publicFiles) => ~listedName(basename(f))
        /\ basename(f) \notin {"robots.txt", "sitemap.xml"}
        /\ ~endsWith(basename(f), ".m4s")

\* the third loop passed a public file with a listed name next to an index
\* that has entries
ListedAssetJudged ==
    /\ importMap # <<>>
    /\ \E k \in 1..Len(publicFiles) :
         /\ publicJudged(k)
         /\ listedName(basename(publicFiles[k]))
         /\ publicFiles[k] \notin reported

(***************************************************************************)
(* C6, as stated. A public file outside the skipped names is kept out of   *)
(* the report when an indexed text holds its bare name, and is reported    *)
(* when none does (and its stat succeeded).                                *)
(***************************************************************************)
AssetUsedByBareName ==
    \A k \in 1..Len(publicFiles) :
        LET f == publicFiles[k]
            named == \E j \in 1..Len(importMap) : includes(importMap[j].content, bareName(f))
        IN  publicJudged(k) /\ ~listedName(basename(f)) =>
                /\ named => f \notin reported
                /\ ~named /\ f \notin statFailed => f \in reported

(***************************************************************************)
(* C6, amended. A public file outside the skipped names is kept out of the *)
(* report when an indexed text holds its full base name, extension         *)
(* included, and is reported when none does and its stat succeeded.        *)
(***************************************************************************)
AssetUsedByFullName ==
    \A k \in 1..Len(publicFiles) :
        LET f == publicFiles[k]
            named == \E j \in 1..Len(importMap) : includes(importMap[j].content, basename(f))
        IN  publicJudged(k) /\ ~listedName(basename(f)) =>
                /\ named => f \notin reported
                /\ ~named /\ f \notin statFailed => f \in reported

\* a public file is in the report though an indexed text holds its bare name
BareNameNotEnough ==
    \E k \in 1..Len(publicFiles) :
        /\ publicJudged(k)
        /\ publicFiles[k] \in reported
        /\ \E j \in 1..Len(importMap) :
             includes(importMap[j].content, bareName(publicFiles[k]))

(***************************************************************************)
(* C7. Whatever the order of the index's entries, a file's verdict is the  *)
(* same, and the second and third loops leave the index as it is.          *)
(***************************************************************************)
VerdictsOrderFree ==
    /\ [](indexBuilt =>
            \A f \in ProbePaths :
                LET verdict == isFileUsed(f, importMap)
                IN  \A idx \in Reorderings(importMap) : isFileUsed(f, idx) = verdict)
    /\ [][(pc \in {"verdict", "public"}) => (importMap' = importMap)]_vars

\* a source file that could not be read was judged used against an index in
\* which the only entry with evidence is not the first
EvidenceBehind ==
    /\ pc = "done"
    /\ \E n \in 1..Len(sourceFiles) :
         LET f == sourceFiles[n]
         IN  /\ f \in readFailed
             /\ ~matchesCriticalRule(f)
             /\ f \notin reported
             /\ f \notin statFailed
             /\ Len(importMap) >= 2
             /\ ~mentions(importMap, 1, f)

(***************************************************************************)
(* C8, as stated. No source file of type page (a path with /app/ and a     *)
(* base name that starts with page.) is in the report.                     *)
(***************************************************************************)
PagesNeverReported ==
    \A f \in reported :
        ~(/\ f \in Range(sourceFiles)
          /\ includes(f, "/app/")
          /\ startsWith(basename(f), "page.")
          /\ getFileType(f) = "page")

(***************************************************************************)
(* C9, as stated. Every entry of the report has the type getFileType gives *)
(* its path.                                                               *)
(***************************************************************************)
EntryTypeIsFileType ==
    \A k \in 1..Len(unusedFiles) :
        unusedFiles[k].type = getFileType(unusedFiles[k].path)

(***************************************************************************)
(* C9, amended. Every entry of the report for a source file has the type   *)
(* getFileType gives its path, and every entry for a public file has the   *)
(* type media.                                                             *)
(***************************************************************************)
EntryTypeBySubtree ==
    \A k \in 1..Len(unusedFiles) :
        LET e == unusedFiles[k]
        IN  /\ e.path \in Range(sourceFiles) => e.type = getFileType(e.path)
            /\ e.path \in Range(publicFiles) => e.type = "media"

\* the report holds a source file's entry and the entry of a public file that
\* getFileType does not call media
BothSubtreesReported ==
    /\ pc = "done"
    /\ \E j, k \in 1..Len(unusedFiles) :
         /\ unusedFiles[j].path \in Range(sourceFiles)
         /\ unusedFiles[j].type # "media"
         /\ unusedFiles[k].path \in Range(publicFiles)
         /\ getFileType(unusedFiles[k].path) # "media"

(***************************************************************************)
(* C10. At every point of the run totalSize is the sum of the sizes of the *)
(* report's entries, and what printResults shows as the total is the sum   *)
(* of its sections' subtotals.                                             *)
(***************************************************************************)
TotalIsSumOfSizes ==
    /\ totalSize = SeqSum([k \in 1..Len(unusedFiles) |-> unusedFiles[k].size])
    /\ pc = "done" /\ unusedFiles # <<>> =>
         /\ rendered.savings = totalSize
         /\ rendered.savings =
              SeqSum([k \in 1..Len(rendered.sections) |-> rendered.sections[k].sizeForType])

\* a report of two types was printed after a stat that failed
MixedReportPrinted ==
    /\ pc = "done"
    /\ statFailed # {}
    /\ Len(unusedFiles) >= 2
    /\ rendered.types >= 2
    /\ \E j, k \in 1..Len(unusedFiles) : unusedFiles[j].size # unusedFiles[k].size

====
